---- MODULE Spec2Model ----
(***************************************************************************)
(* First-person movement and collision resolution of the walkthrough       *)
(* viewer.  Two revisions of the script are modelled side by side:         *)
(*   variant = "main"   : src/main.js          (crouch keys, no joystick)  *)
(*   variant = "mobile" : src/unnamed/part_000 (joystick, arrow keys)      *)
(*                                                                         *)
(* Numbers.  The script computes in IEEE doubles; the model computes in    *)
(* fixed point: lengths in 1/1000 of a world unit, time in milliseconds,   *)
(* velocities in 1/1000 unit per second, the bunny-hop multiplier in       *)
(* 1/1000.  Frame times are multiples of 50 ms, which makes gravity        *)
(* integration exact; products with the multiplier are truncated.          *)
(***************************************************************************)
EXTENDS Integers, Sequences, FiniteSets, TLC

VARIABLES
    variant,             \* which revision of the script runs
    colliderBoxes,       \* the collider registry, in registration order
    position,            \* camera.position
    heading,             \* camera look direction flattened to the horizontal plane
    move,                \* move.forward / backward / left / right
    isRunning,
    canJump,
    verticalVelocity,
    bunnyHopMultiplier,
    isCrouching,
    baseSpeed,
    normalSpeed,
    activeControls,      \* "orbit" or "fps"
    enabled,             \* [orbit |-> orbitControls.enabled, fps |-> fpsControls.enabled]
    joystickActive,      \* "mobile": the joystick handlers' capture flag
    joystickTouchId,     \* "mobile": the touch that drives the joystick, or noTouch
    joystickVector,      \* "mobile": the joystick deflection, in 1/1000
    held,                \* environment: the direction keys that are physically down
    stickPointer,        \* environment: the pointers that are down on the joystick
    last                 \* history: what the last handler did (not program state)

vars == <<variant, colliderBoxes, position, heading, move, isRunning, canJump,
          verticalVelocity, bunnyHopMultiplier, isCrouching, baseSpeed,
          normalSpeed, activeControls, enabled, joystickActive, joystickTouchId,
          joystickVector, held, stickPointer, last>>

\* The joystick's variables, and with them the keys held: what the handlers
\* outside the input layer leave alone.
joystick == <<joystickActive, joystickTouchId, joystickVector, stickPointer>>
input == <<joystick, held>>

(***************************************************************************)
(* Tuning constants of the script, in model units.                         *)
(***************************************************************************)
gravity == -20
runSpeed == 8000
initBaseSpeed == 4000
crouchSpeed == 1000
crouchOffset == -700
maxBunnyHop == 5000
flyVelocity == 15000
cameraBoxSizeX == 800
cameraBoxSizeY == 1800
cameraBoxSizeZ == 800
headHeight == 300
roofEpsilon == 100
spawnX == 150000
spawnZ == 0

groundHeight == IF variant = "main" THEN -19000 ELSE -18500
jumpStrength == IF variant = "main" THEN 5000 ELSE 6000
spawnY == IF variant = "main" THEN -19000 ELSE -18500

cameraBoxSize == [x |-> cameraBoxSizeX, y |-> cameraBoxSizeY, z |-> cameraBoxSizeZ]

(***************************************************************************)
(* Vectors and boxes (THREE.Vector3, THREE.Box3).                          *)
(***************************************************************************)
Vec(a, b, c) == [x |-> a, y |-> b, z |-> c]

Box(x0, x1, y0, y1, z0, z1) == [min |-> Vec(x0, y0, z0), max |-> Vec(x1, y1, z1)]

\* Box3.setFromCenterAndSize: min = center - size/2, max = center + size/2.
setFromCenterAndSize(center, size) ==
    [min |-> Vec(center.x - size.x \div 2, center.y - size.y \div 2, center.z - size.z \div 2),
     max |-> Vec(center.x + size.x \div 2, center.y + size.y \div 2, center.z + size.z \div 2)]

\* A mutant of intersectsBox: the z axis is not compared.
intersectsBoxNoZ(a, b) ==
    ~ (\/ b.max.x < a.min.x \/ b.min.x > a.max.x
       \/ b.max.y < a.min.y \/ b.min.y > a.max.y)

\* Box3.intersectsBox: closed intervals on the three axes.
intersectsBox(a, b) ==
    ~ (\/ b.max.x < a.min.x \/ b.min.x > a.max.x
       \/ b.max.y < a.min.y \/ b.min.y > a.max.y
       \/ b.max.z < a.min.z \/ b.min.z > a.max.z)

null == [min |-> Vec(0, 0, 0), max |-> Vec(-1, -1, -1)]

\* joystickTouchId = null: no touch drives the joystick (touch identifiers are >= 1 here).
noTouch == 0

Min(a, b) == IF a <= b THEN a ELSE b

\* A JavaScript call evaluates its argument once, before the body runs:
\* ByValue(e, F) is F applied to the value of e.
ByValue(e, F(_)) == CHOOSE r \in {F(v) : v \in {e}} : TRUE

\* A mutant of firstIntersecting: the scan keeps the last match.
lastIntersecting(boxes, testBox) ==
    ByValue(testBox, LAMBDA t :
        ByValue({i \in 1..Len(boxes) : intersectsBox(t, boxes[i])}, LAMBDA hits :
            IF hits = {} THEN 0 ELSE CHOOSE i \in hits : \A j \in hits : j <= i))

\* The scan "for (i = 0; i < colliderBoxes.length; i++) if (intersects) return":
\* the index (1-based) of the first intersecting collider, 0 when there is none.
firstIntersecting(boxes, testBox) ==
    ByValue(testBox, LAMBDA t :
        ByValue({i \in 1..Len(boxes) : intersectsBox(t, boxes[i])}, LAMBDA hits :
            IF hits = {} THEN 0 ELSE CHOOSE i \in hits : \A j \in hits : i <= j))

\* The test boxes the three checks build.
horizontalTestBox(p) ==
    setFromCenterAndSize(Vec(p.x, p.y + cameraBoxSizeY \div 2, p.z), cameraBoxSize)

verticalTestBox(p, direction) ==
    LET testY == IF direction = "down" THEN p.y ELSE p.y + cameraBoxSizeY \div 2
    IN  setFromCenterAndSize(Vec(p.x, testY, p.z), cameraBoxSize)

headTestBox(p) ==
    setFromCenterAndSize(Vec(p.x, p.y + cameraBoxSizeY - headHeight \div 2, p.z),
                         Vec(cameraBoxSizeX, headHeight, cameraBoxSizeZ))

\* A mutant of checkResult: a reported collision carries no collider.
checkResultLosesBox(boxes, i) ==
    [collision |-> i # 0, index |-> i, box |-> null]

\* The result object { collision, box }; index is the identity of the collider.
checkResult(boxes, i) ==
    [collision |-> i # 0, index |-> i, box |-> IF i = 0 THEN null ELSE boxes[i]]

checkHorizontalCollisionIn(boxes, p) ==
    firstIntersecting(boxes, horizontalTestBox(p)) # 0

checkVerticalCollisionIn(boxes, p, direction) ==
    checkResult(boxes, firstIntersecting(boxes, verticalTestBox(p, direction)))

checkHeadCollisionIn(boxes, p) ==
    checkResult(boxes, firstIntersecting(boxes, headTestBox(p)))

checkHorizontalCollision(p) == checkHorizontalCollisionIn(colliderBoxes, p)
checkVerticalCollision(p, direction) == checkVerticalCollisionIn(colliderBoxes, p, direction)
checkHeadCollision(p) == checkHeadCollisionIn(colliderBoxes, p)

\* A mutant of getValidMovementIn: the Z-only candidate is tried before the X-only one.
getValidMovementZFirst(boxes, currentPos, desiredPos) ==
    LET xOnlyPos == Vec(desiredPos.x, currentPos.y, currentPos.z)
        zOnlyPos == Vec(currentPos.x, currentPos.y, desiredPos.z)
    IN  IF ~ checkHorizontalCollisionIn(boxes, desiredPos) THEN desiredPos
        ELSE IF ~ checkHorizontalCollisionIn(boxes, zOnlyPos) THEN zOnlyPos
        ELSE IF ~ checkHorizontalCollisionIn(boxes, xOnlyPos) THEN xOnlyPos
        ELSE currentPos

\* A mutant of getValidMovementIn: the Z-only candidate is accepted unchecked.
getValidMovementZUnchecked(boxes, currentPos, desiredPos) ==
    LET xOnlyPos == Vec(desiredPos.x, currentPos.y, currentPos.z)
        zOnlyPos == Vec(currentPos.x, currentPos.y, desiredPos.z)
    IN  IF ~ checkHorizontalCollisionIn(boxes, desiredPos) THEN desiredPos
        ELSE IF ~ checkHorizontalCollisionIn(boxes, xOnlyPos) THEN xOnlyPos
        ELSE zOnlyPos

\* getValidMovement: full move, else X only, else Z only, else stay.
getValidMovementIn(boxes, currentPos, desiredPos) ==
    LET xOnlyPos == Vec(desiredPos.x, currentPos.y, currentPos.z)
        zOnlyPos == Vec(currentPos.x, currentPos.y, desiredPos.z)
    IN  IF ~ checkHorizontalCollisionIn(boxes, desiredPos) THEN desiredPos
        ELSE IF ~ checkHorizontalCollisionIn(boxes, xOnlyPos) THEN xOnlyPos
        ELSE IF ~ checkHorizontalCollisionIn(boxes, zOnlyPos) THEN zOnlyPos
        ELSE currentPos

getValidMovement(currentPos, desiredPos) ==
    getValidMovementIn(colliderBoxes, currentPos, desiredPos)

(***************************************************************************)
(* Registry operations.                                                    *)
(***************************************************************************)
\* A mutant of adjustCollisionBoxHeight: only min.y moves.
adjustCollisionBoxHeightMinOnly(boxes, yOffset) ==
    [i \in 1..Len(boxes) |->
        [min |-> [boxes[i].min EXCEPT !.y = @ + yOffset],
         max |-> boxes[i].max]]

\* adjustCollisionBoxHeight(yOffset): every box's min.y and max.y move by yOffset.
adjustCollisionBoxHeight(boxes, yOffset) ==
    [i \in 1..Len(boxes) |->
        [min |-> [boxes[i].min EXCEPT !.y = @ + yOffset],
         max |-> [boxes[i].max EXCEPT !.y = @ + yOffset]]]

(***************************************************************************)
(* The frame tick, animate(), first-person branch.                         *)
(***************************************************************************)
\* Division truncating toward zero (the model's rounding of a double product).
TruncDiv(a, b) == IF a >= 0 THEN a \div b ELSE -((-a) \div b)

noDirection == ~move.forward /\ ~move.backward /\ ~move.left /\ ~move.right

\* A mutant of directionRaw: a held backward (left) key overrides forward (right).
directionRawOverride ==
    [x |-> IF move.left THEN -1 ELSE IF move.right THEN 1 ELSE 0,
     z |-> IF move.backward THEN 1 ELSE IF move.forward THEN -1 ELSE 0]

\* direction.set(0,0,0); +-1 per flag; direction.normalize(), in 1/1000.
directionRaw ==
    [x |-> (IF move.right THEN 1 ELSE 0) - (IF move.left THEN 1 ELSE 0),
     z |-> (IF move.backward THEN 1 ELSE 0) - (IF move.forward THEN 1 ELSE 0)]

\* A mutant of normalize2: the direction is not normalized.
normalize2Skipped(d) == [x |-> d.x * 1000, z |-> d.z * 1000]

normalize2(d) ==
    IF d.x # 0 /\ d.z # 0 THEN [x |-> d.x * 707, z |-> d.z * 707]
    ELSE [x |-> d.x * 1000, z |-> d.z * 1000]

direction == normalize2(directionRaw)

\* camera.getWorldDirection(forward); forward.y = 0; forward.normalize().
forwardOf(h) ==
    CASE h = "-x" -> [x |-> -1, z |-> 0]
      [] h = "+x" -> [x |-> 1, z |-> 0]
      [] h = "-z" -> [x |-> 0, z |-> -1]
      [] OTHER    -> [x |-> 0, z |-> 1]

\* right.crossVectors(forward, (0,1,0)) = (-forward.z, 0, forward.x).
rightOf(h) == [x |-> -forwardOf(h).z, z |-> forwardOf(h).x]

currentSpeed ==
    TruncDiv((IF isRunning THEN runSpeed ELSE baseSpeed) * bunnyHopMultiplier, 1000)

moveDistance(dt) == TruncDiv(currentSpeed * dt, 1000)

desiredPos(dt) ==
    LET fwd == TruncDiv(-direction.z * moveDistance(dt), 1000)
        rgt == TruncDiv(direction.x * moveDistance(dt), 1000)
    IN  Vec(position.x + forwardOf(heading).x * fwd + rightOf(heading).x * rgt,
            position.y,
            position.z + forwardOf(heading).z * fwd + rightOf(heading).z * rgt)

\* Which candidate getValidMovement returned (history only); "xOnlyTie" when the
\* Z-only candidate was free as well.
slideOutcome(cur, des) ==
    LET xOnlyPos == Vec(des.x, cur.y, cur.z)
        zOnlyPos == Vec(cur.x, cur.y, des.z)
    IN  IF ~ checkHorizontalCollision(des) THEN "full"
        ELSE IF ~ checkHorizontalCollision(xOnlyPos)
             THEN IF ~ checkHorizontalCollision(zOnlyPos) THEN "xOnlyTie" ELSE "xOnly"
        ELSE IF ~ checkHorizontalCollision(zOnlyPos) THEN "zOnly"
        ELSE "none"

\* A mutant of fallbackGround: the crouch offset is not applied.
fallbackGroundNoCrouch == groundHeight

\* currentGround = isCrouching ? groundHeight + crouchOffset : groundHeight.
fallbackGround == IF isCrouching THEN groundHeight + crouchOffset ELSE groundHeight

\* A mutant of verticalStep: a landing keeps the candidate height.
verticalStepNoSnap(p, dt) ==
    LET v1    == verticalVelocity + gravity * dt
        nextY == p.y + TruncDiv(v1 * dt, 1000)
        nextPos == Vec(p.x, nextY, p.z)
        headCheck == checkVerticalCollision(nextPos, "up")
        groundCheck == checkVerticalCollision(nextPos, "down")
    IN  IF v1 > 0
        THEN IF headCheck.collision
             THEN [y |-> headCheck.box.min.y - cameraBoxSizeY + roofEpsilon, v |-> 0,
                   canJump |-> canJump, reset |-> FALSE, branch |-> "ceiling",
                   index |-> headCheck.index]
             ELSE [y |-> nextY, v |-> v1, canJump |-> canJump, reset |-> FALSE,
                   branch |-> "rise", index |-> 0]
        ELSE IF groundCheck.collision
             THEN [y |-> nextY, v |-> 0, canJump |-> TRUE,
                   reset |-> noDirection, branch |-> "landed",
                   index |-> groundCheck.index]
             ELSE [y |-> nextY, v |-> v1, canJump |-> canJump, reset |-> FALSE,
                   branch |-> "fall", index |-> 0]

\* A mutant of verticalStep: the ceiling snap puts the capsule top on the underside.
verticalStepNoEpsilon(p, dt) ==
    LET v1    == verticalVelocity + gravity * dt
        nextY == p.y + TruncDiv(v1 * dt, 1000)
        nextPos == Vec(p.x, nextY, p.z)
        headCheck == checkVerticalCollision(nextPos, "up")
        groundCheck == checkVerticalCollision(nextPos, "down")
    IN  IF v1 > 0
        THEN IF headCheck.collision
             THEN [y |-> headCheck.box.min.y - cameraBoxSizeY, v |-> 0,
                   canJump |-> canJump, reset |-> FALSE, branch |-> "ceiling",
                   index |-> headCheck.index]
             ELSE [y |-> nextY, v |-> v1, canJump |-> canJump, reset |-> FALSE,
                   branch |-> "rise", index |-> 0]
        ELSE IF groundCheck.collision
             THEN [y |-> groundCheck.box.max.y, v |-> 0, canJump |-> TRUE,
                   reset |-> noDirection, branch |-> "landed",
                   index |-> groundCheck.index]
             ELSE [y |-> nextY, v |-> v1, canJump |-> canJump, reset |-> FALSE,
                   branch |-> "fall", index |-> 0]

\* A mutant of verticalStep: a velocity of exactly 0 takes the upward branch.
verticalStepZeroAscends(p, dt) ==
    LET v1    == verticalVelocity + gravity * dt
        nextY == p.y + TruncDiv(v1 * dt, 1000)
        nextPos == Vec(p.x, nextY, p.z)
        headCheck == checkVerticalCollision(nextPos, "up")
        groundCheck == checkVerticalCollision(nextPos, "down")
    IN  IF v1 >= 0
        THEN IF headCheck.collision
             THEN [y |-> headCheck.box.min.y - cameraBoxSizeY + roofEpsilon, v |-> 0,
                   canJump |-> canJump, reset |-> FALSE, branch |-> "ceiling",
                   index |-> headCheck.index]
             ELSE [y |-> nextY, v |-> v1, canJump |-> canJump, reset |-> FALSE,
                   branch |-> "rise", index |-> 0]
        ELSE IF groundCheck.collision
             THEN [y |-> groundCheck.box.max.y, v |-> 0, canJump |-> TRUE,
                   reset |-> noDirection, branch |-> "landed",
                   index |-> groundCheck.index]
             ELSE [y |-> nextY, v |-> v1, canJump |-> canJump, reset |-> FALSE,
                   branch |-> "fall", index |-> 0]

\* Gravity integration and the ceiling / landing branches, at horizontal place p.
verticalStep(p, dt) ==
    LET v1    == verticalVelocity + gravity * dt
        nextY == p.y + TruncDiv(v1 * dt, 1000)
        nextPos == Vec(p.x, nextY, p.z)
        headCheck == checkVerticalCollision(nextPos, "up")
        groundCheck == checkVerticalCollision(nextPos, "down")
    IN  IF v1 > 0
        THEN IF headCheck.collision
             THEN [y |-> headCheck.box.min.y - cameraBoxSizeY + roofEpsilon, v |-> 0,
                   canJump |-> canJump, reset |-> FALSE, branch |-> "ceiling",
                   index |-> headCheck.index]
             ELSE [y |-> nextY, v |-> v1, canJump |-> canJump, reset |-> FALSE,
                   branch |-> "rise", index |-> 0]
        ELSE IF groundCheck.collision
             THEN [y |-> groundCheck.box.max.y, v |-> 0, canJump |-> TRUE,
                   reset |-> noDirection, branch |-> "landed",
                   index |-> groundCheck.index]
             ELSE [y |-> nextY, v |-> v1, canJump |-> canJump, reset |-> FALSE,
                   branch |-> "fall", index |-> 0]

\* A mutant of fallbackStep: the clamp leaves the can-jump flag alone.
fallbackStepKeepsFlag(r) ==
    IF r.y <= fallbackGround
    THEN [r EXCEPT !.y = fallbackGround, !.v = 0,
                   !.reset = r.reset \/ noDirection] @@ [clamped |-> TRUE]
    ELSE r @@ [clamped |-> FALSE]

\* A mutant of fallbackStep: the clamp tests "<" and leaves the velocity alone.
fallbackStepStrict(r) ==
    IF r.y < fallbackGround
    THEN [r EXCEPT !.y = fallbackGround, !.canJump = TRUE,
                   !.reset = r.reset \/ noDirection] @@ [clamped |-> TRUE]
    ELSE r @@ [clamped |-> FALSE]

\* The fallback plane, applied to the result r of verticalStep.
fallbackStep(r) ==
    IF r.y <= fallbackGround
    THEN [r EXCEPT !.y = fallbackGround, !.v = 0, !.canJump = TRUE,
                   !.reset = r.reset \/ noDirection] @@ [clamped |-> TRUE]
    ELSE r @@ [clamped |-> FALSE]

\* A mutant of animateFps: a frame whose horizontal move is rejected ends there.
animateFpsStopsWhenRejected(dt) ==
    ByValue(getValidMovement(position, desiredPos(dt)), LAMBDA validPos :
    ByValue(IF validPos = position /\ desiredPos(dt) # position
            THEN [y |-> position.y, v |-> verticalVelocity, canJump |-> canJump,
                  reset |-> FALSE, branch |-> "fall", index |-> 0]
            ELSE verticalStep(validPos, dt), LAMBDA stepped :
    ByValue(fallbackStep(stepped), LAMBDA r :
        [position |-> Vec(validPos.x, r.y, validPos.z),
         verticalVelocity |-> r.v,
         canJump |-> r.canJump,
         bunnyHopMultiplier |-> IF r.reset THEN 1000 ELSE bunnyHopMultiplier,
         slide |-> slideOutcome(position, desiredPos(dt)),
         branch |-> r.branch,
         index |-> r.index,
         clamped |-> r.clamped])))

\* The whole first-person tick as a function of the state and the frame time.
animateFps(dt) ==
    ByValue(getValidMovement(position, desiredPos(dt)), LAMBDA validPos :
    ByValue(verticalStep(validPos, dt), LAMBDA stepped :
    ByValue(fallbackStep(stepped), LAMBDA r :
        [position |-> Vec(validPos.x, r.y, validPos.z),
         verticalVelocity |-> r.v,
         canJump |-> r.canJump,
         bunnyHopMultiplier |-> IF r.reset THEN 1000 ELSE bunnyHopMultiplier,
         slide |-> slideOutcome(position, desiredPos(dt)),
         branch |-> r.branch,
         index |-> r.index,
         clamped |-> r.clamped])))

(***************************************************************************)
(* Bounds of the model.                                                    *)
(***************************************************************************)
MaxDeltaSteps == 2      \* frame times are 0, 200, ..., 200 * MaxDeltaSteps ms
ArenaCells == 2         \* a walk stays within ArenaCells units of the spawn point
MaxAltitude == 0        \* the fly key works up to MaxAltitude units above the ground
MaxDrop == 3            \* a drop starts at most MaxDrop units above the ground

MaxShift == 1           \* the arrow keys move the colliders at most MaxShift units each way
MaxFineShift == 4       \* the page keys move them at most MaxFineShift tenths each way
MaxTouches == 1         \* touches have the identifiers 1 .. MaxTouches

DeltaSet == {200 * k : k \in 0..MaxDeltaSteps}
\* Finer frame times, all positive, for the specifications that only fall.
FineDeltaSet == {50 * k : k \in 1..(2 * MaxDeltaSteps)}

InArena(p) ==
    /\ p.x >= spawnX - 1000 * ArenaCells /\ p.x <= spawnX + 1000 * ArenaCells
    /\ p.z >= spawnZ - 1000 * ArenaCells /\ p.z <= spawnZ + 1000 * ArenaCells

(***************************************************************************)
(* History.                                                                *)
(***************************************************************************)
Did(op, out) == [op |-> op, out |-> out, slide |-> "", clamped |-> FALSE, index |-> 0]

(***************************************************************************)
(* Handlers.                                                               *)
(***************************************************************************)
\* The letter key of a direction flag.
letterKey(f) ==
    CASE f = "forward"  -> "KeyW"
      [] f = "backward" -> "KeyS"
      [] f = "left"     -> "KeyA"
      [] OTHER          -> "KeyD"

\* keydown of KeyW / KeyS / KeyA / KeyD.
MoveKeyDown(f) ==
    /\ move' = [move EXCEPT ![f] = TRUE]
    /\ held' = held \cup {letterKey(f)}
    /\ last' = Did("keydown", f)
    /\ UNCHANGED <<joystick, variant, colliderBoxes, position, heading, isRunning, canJump,
                   verticalVelocity, bunnyHopMultiplier, isCrouching, baseSpeed,
                   normalSpeed, activeControls, enabled>>

MoveKeyUp(f) ==
    /\ move' = [move EXCEPT ![f] = FALSE]
    /\ held' = held \ {letterKey(f)}
    /\ last' = Did("keyup", f)
    /\ UNCHANGED <<joystick, variant, colliderBoxes, position, heading, isRunning, canJump,
                   verticalVelocity, bunnyHopMultiplier, isCrouching, baseSpeed,
                   normalSpeed, activeControls, enabled>>

\* keydown / keyup of ShiftLeft / ShiftRight.
ShiftKey(down) ==
    /\ isRunning' = down
    /\ last' = Did(IF down THEN "keydown" ELSE "keyup", "shift")
    /\ UNCHANGED <<input, variant, colliderBoxes, position, heading, move, canJump,
                   verticalVelocity, bunnyHopMultiplier, isCrouching, baseSpeed,
                   normalSpeed, activeControls, enabled>>

\* A mutant of hopGrowth: the cap is not applied.
hopGrowthNoCap(m) == (m * 11) \div 10

\* Math.min(bunnyHopMultiplier * 1.1, maxBunnyHop).
hopGrowth(m) == Min((m * 11) \div 10, maxBunnyHop)

\* A mutant of jumpGate: the head check is skipped.
jumpGateNoHead == canJump /\ ~isCrouching

\* if (canJump && !isCrouching) { headCheck = ...; if (!headCheck.collision)
jumpGate == canJump /\ ~isCrouching /\ ~checkHeadCollision(position).collision

\* A mutant of jumpEffect: the multiplier grows whether or not the run flag is set.
jumpEffectAlwaysGrow(gate) ==
    IF gate
    THEN /\ verticalVelocity' = jumpStrength
         /\ canJump' = FALSE
         /\ bunnyHopMultiplier' = hopGrowth(bunnyHopMultiplier)
    ELSE UNCHANGED <<verticalVelocity, canJump, bunnyHopMultiplier>>

\* The body both jump handlers share, once their gate is decided.
jumpEffect(gate) ==
    IF gate
    THEN /\ verticalVelocity' = jumpStrength
         /\ canJump' = FALSE
         /\ bunnyHopMultiplier' =
               IF isRunning THEN hopGrowth(bunnyHopMultiplier) ELSE bunnyHopMultiplier
    ELSE UNCHANGED <<verticalVelocity, canJump, bunnyHopMultiplier>>

jumpOutcome ==
    IF ~canJump THEN "noCanJump"
    ELSE IF isCrouching THEN "crouching"
    ELSE IF checkHeadCollision(position).collision THEN "headBlocked"
    ELSE "jumped"

\* keydown of Space.
SpaceDown ==
    /\ jumpEffect(jumpGate)
    /\ last' = Did("space", jumpOutcome)
    /\ UNCHANGED <<input, variant, colliderBoxes, position, heading, move, isRunning,
                   isCrouching, baseSpeed, normalSpeed, activeControls, enabled>>

\* handleJump: the on-screen jump button of "mobile".
HandleJump ==
    /\ variant = "mobile"
    /\ jumpEffect(activeControls = "fps" /\ jumpGate)
    /\ last' = Did("jumpButton",
                   IF activeControls = "fps" THEN jumpOutcome ELSE "orbit")
    /\ UNCHANGED <<input, variant, colliderBoxes, position, heading, move, isRunning,
                   isCrouching, baseSpeed, normalSpeed, activeControls, enabled>>

\* keydown of AltRight (and AltLeft in "mobile"): the fly impulse.
AltDown ==
    /\ position.y <= groundHeight + 1000 * MaxAltitude
    /\ verticalVelocity' = flyVelocity
    /\ canJump' = TRUE
    /\ last' = Did("alt", "fly")
    /\ UNCHANGED <<input, variant, colliderBoxes, position, heading, move, isRunning,
                   bunnyHopMultiplier, isCrouching, baseSpeed, normalSpeed,
                   activeControls, enabled>>

\* A mutant of KeyCDown: a repeated press saves the base speed again.
KeyCDownSavesAgain ==
    /\ variant = "main"
    /\ IF ~isCrouching
       THEN /\ isCrouching' = TRUE
            /\ position' = [position EXCEPT !.y = @ + crouchOffset]
            /\ normalSpeed' = baseSpeed
            /\ baseSpeed' = crouchSpeed
            /\ last' = Did("keyC", "crouched")
       ELSE /\ UNCHANGED <<isCrouching, position, baseSpeed>>
            /\ normalSpeed' = baseSpeed
            /\ last' = Did("keyC", "already")
    /\ UNCHANGED <<input, variant, colliderBoxes, heading, move, isRunning, canJump,
                   verticalVelocity, bunnyHopMultiplier, activeControls, enabled>>

\* keydown of KeyC ("main" only): enter crouch.
KeyCDown ==
    /\ variant = "main"
    /\ IF ~isCrouching
       THEN /\ isCrouching' = TRUE
            /\ position' = [position EXCEPT !.y = @ + crouchOffset]
            /\ normalSpeed' = baseSpeed
            /\ baseSpeed' = crouchSpeed
            /\ last' = Did("keyC", "crouched")
       ELSE /\ UNCHANGED <<isCrouching, position, normalSpeed, baseSpeed>>
            /\ last' = Did("keyC", "already")
    /\ UNCHANGED <<input, variant, colliderBoxes, heading, move, isRunning, canJump,
                   verticalVelocity, bunnyHopMultiplier, activeControls, enabled>>

\* A mutant of ControlUp: standing up does not restore the base speed.
ControlUpKeepsSpeed ==
    /\ variant = "main"
    /\ LET standUpPos == Vec(position.x, position.y - crouchOffset, position.z)
           headCheck == checkHeadCollision(standUpPos)
       IN  IF isCrouching /\ ~headCheck.collision
           THEN /\ isCrouching' = FALSE
                /\ position' = [position EXCEPT !.y = @ - crouchOffset]
                /\ last' = Did("controlUp", "stood")
           ELSE /\ UNCHANGED <<isCrouching, position>>
                /\ last' = Did("controlUp",
                               IF isCrouching THEN "refused" ELSE "standing")
    /\ UNCHANGED <<input, variant, colliderBoxes, heading, move, isRunning, canJump,
                   verticalVelocity, bunnyHopMultiplier, baseSpeed, normalSpeed,
                   activeControls, enabled>>

\* A mutant of ControlUp: the head check at the stand-up position is skipped.
ControlUpNoHeadCheck ==
    /\ variant = "main"
    /\ IF isCrouching
       THEN /\ isCrouching' = FALSE
            /\ position' = [position EXCEPT !.y = @ - crouchOffset]
            /\ baseSpeed' = normalSpeed
            /\ last' = Did("controlUp", "stood")
       ELSE /\ UNCHANGED <<isCrouching, position, baseSpeed>>
            /\ last' = Did("controlUp", "standing")
    /\ UNCHANGED <<input, variant, colliderBoxes, heading, move, isRunning, canJump,
                   verticalVelocity, bunnyHopMultiplier, normalSpeed,
                   activeControls, enabled>>

\* keyup of ControlLeft / ControlRight ("main" only): stand up if the head is clear.
ControlUp ==
    /\ variant = "main"
    /\ LET standUpPos == Vec(position.x, position.y - crouchOffset, position.z)
           headCheck == checkHeadCollision(standUpPos)
       IN  IF isCrouching /\ ~headCheck.collision
           THEN /\ isCrouching' = FALSE
                /\ position' = [position EXCEPT !.y = @ - crouchOffset]
                /\ baseSpeed' = normalSpeed
                /\ last' = Did("controlUp", "stood")
           ELSE /\ UNCHANGED <<isCrouching, position, baseSpeed>>
                /\ last' = Did("controlUp",
                               IF isCrouching THEN "refused" ELSE "standing")
    /\ UNCHANGED <<input, variant, colliderBoxes, heading, move, isRunning, canJump,
                   verticalVelocity, bunnyHopMultiplier, normalSpeed,
                   activeControls, enabled>>

\* activateOrbitControls (KeyO, the view selector, the mobile camera button).
ActivateOrbitControls ==
    /\ enabled' = [orbit |-> TRUE, fps |-> FALSE]
    /\ activeControls' = "orbit"
    /\ last' = Did("activateOrbit", activeControls)
    /\ UNCHANGED <<input, variant, colliderBoxes, position, heading, move, isRunning,
                   canJump, verticalVelocity, bunnyHopMultiplier, isCrouching,
                   baseSpeed, normalSpeed>>

\* A mutant of ActivateFPSControls: the switch also resets the jump state.
ActivateFPSControlsReset ==
    /\ enabled' = [orbit |-> FALSE, fps |-> TRUE]
    /\ activeControls' = "fps"
    /\ position' = Vec(spawnX, spawnY, spawnZ)
    /\ verticalVelocity' = 0
    /\ canJump' = TRUE
    /\ last' = Did("activateFPS", activeControls)
    /\ UNCHANGED <<input, variant, colliderBoxes, heading, move, isRunning,
                   bunnyHopMultiplier, isCrouching, baseSpeed, normalSpeed>>

\* activateFPSControls (KeyP, the view selector): teleport to the spawn point.
ActivateFPSControls ==
    /\ enabled' = [orbit |-> FALSE, fps |-> TRUE]
    /\ activeControls' = "fps"
    /\ position' = Vec(spawnX, spawnY, spawnZ)
    /\ last' = Did("activateFPS", activeControls)
    /\ UNCHANGED <<input, variant, colliderBoxes, heading, move, isRunning, canJump,
                   verticalVelocity, bunnyHopMultiplier, isCrouching, baseSpeed,
                   normalSpeed>>

\* A mutant of Tick: the first-person branch runs whatever the active mode is.
TickUngated(dt) ==
    /\ \E t \in {animateFps(dt)} :
          /\ position' = t.position
          /\ verticalVelocity' = t.verticalVelocity
          /\ canJump' = t.canJump
          /\ bunnyHopMultiplier' = t.bunnyHopMultiplier
          /\ last' = [op |-> "tick", out |-> t.branch, slide |-> t.slide,
                      clamped |-> t.clamped, index |-> t.index]
    /\ UNCHANGED <<input, variant, colliderBoxes, heading, move, isRunning, isCrouching,
                   baseSpeed, normalSpeed, activeControls, enabled>>

\* animate(): one frame with clock.getDelta() = dt.
Tick(dt) ==
    /\ IF activeControls = "fps"
       THEN \E t \in {animateFps(dt)} :
                /\ IF t.position.x = position.x /\ t.position.z = position.z
                   THEN TRUE ELSE InArena(t.position)
                /\ position' = t.position
                /\ verticalVelocity' = t.verticalVelocity
                /\ canJump' = t.canJump
                /\ bunnyHopMultiplier' = t.bunnyHopMultiplier
                /\ last' = [op |-> "tick", out |-> t.branch, slide |-> t.slide,
                            clamped |-> t.clamped, index |-> t.index]
       ELSE /\ UNCHANGED <<position, verticalVelocity, canJump, bunnyHopMultiplier>>
            /\ last' = Did("tick", "orbit")
    /\ UNCHANGED <<input, variant, colliderBoxes, heading, move, isRunning, isCrouching,
                   baseSpeed, normalSpeed, activeControls, enabled>>

(***************************************************************************)
(* The registry after scene load: a few scenes around the spawn point,     *)
(* given relative to the spawn point and the ground reference.             *)
(***************************************************************************)
SceneBox(dx0, dx1, dy0, dy1, dz0, dz1) ==
    Box(spawnX + dx0, spawnX + dx1, groundHeight + dy0, groundHeight + dy1,
        spawnZ + dz0, spawnZ + dz1)

platform == SceneBox(-2000, 2000, -1000, 500, -2000, 2000)
step     == SceneBox(-2000, 2000, -1000, 300, -2000, 2000)
roof     == SceneBox(-2000, 2000, 2200, 2700, -2000, 2000)
lowRoof  == SceneBox(-2000, 2000, 1700, 2200, -2000, 2000)
\* Two tall walls that leave the capsule no room along x at the spawn point.
wallA    == SceneBox(401, 20401, -30000, 30000, -20000, 20000)
wallB    == SceneBox(-20401, -401, -30000, 30000, -20000, 20000)

pit == <<wallA, wallB>>

Scenes == { pit, pit \o <<platform>>, <<step, platform>> \o pit,
            pit \o <<roof>>, pit \o <<lowRoof>> }

ArrowScenes == { <<>>, <<platform>> }

HopScenes == { pit, <<platform>> \o pit }

\* keydown of ArrowUp / ArrowDown.  The window listener shifts every collider by
\* one unit; in "mobile" the document listener also sets the forward / backward
\* flag.  Both listeners run on the one event.
ArrowKeyDown(up) ==
    /\ colliderBoxes' = adjustCollisionBoxHeight(colliderBoxes,
                                                 IF up THEN 1000 ELSE -1000)
    /\ \E s \in ArrowScenes, k \in (-MaxShift)..MaxShift :
          colliderBoxes' = adjustCollisionBoxHeight(s, 1000 * k)
    /\ IF variant = "mobile"
       THEN /\ move' = [move EXCEPT ![IF up THEN "forward" ELSE "backward"] = TRUE]
            /\ held' = held \cup {IF up THEN "ArrowUp" ELSE "ArrowDown"}
            /\ last' = Did("keydown", IF up THEN "forward" ELSE "backward")
       ELSE /\ UNCHANGED <<move, held>>
            /\ last' = Did("arrow", IF up THEN "up" ELSE "down")
    /\ UNCHANGED <<joystick, variant, position, heading, isRunning, canJump,
                   verticalVelocity, bunnyHopMultiplier, isCrouching, baseSpeed,
                   normalSpeed, activeControls, enabled>>

\* keyup of ArrowUp / ArrowDown ("mobile": the document listener clears the flag).
ArrowKeyUp(up) ==
    /\ variant = "mobile"
    /\ move' = [move EXCEPT ![IF up THEN "forward" ELSE "backward"] = FALSE]
    /\ held' = held \ {IF up THEN "ArrowUp" ELSE "ArrowDown"}
    /\ last' = Did("keyup", IF up THEN "forward" ELSE "backward")
    /\ UNCHANGED <<joystick, variant, colliderBoxes, position, heading, isRunning, canJump,
                   verticalVelocity, bunnyHopMultiplier, isCrouching, baseSpeed,
                   normalSpeed, activeControls, enabled>>

\* keydown of PageUp / PageDown: the window listener shifts every collider by 0.1.
PageKeyDown(up) ==
    /\ colliderBoxes' = adjustCollisionBoxHeight(colliderBoxes,
                                                 IF up THEN 100 ELSE -100)
    /\ \E s \in ArrowScenes, k \in (-MaxFineShift)..MaxFineShift :
          colliderBoxes' = adjustCollisionBoxHeight(s, 100 * k)
    /\ last' = Did("page", IF up THEN "up" ELSE "down")
    /\ UNCHANGED <<input, variant, position, heading, move, isRunning, canJump,
                   verticalVelocity, bunnyHopMultiplier, isCrouching, baseSpeed,
                   normalSpeed, activeControls, enabled>>

\* keydown of ArrowLeft / ArrowRight ("mobile": bound to the left / right flag).
SideArrowKeyDown(left) ==
    /\ variant = "mobile"
    /\ move' = [move EXCEPT ![IF left THEN "left" ELSE "right"] = TRUE]
    /\ held' = held \cup {IF left THEN "ArrowLeft" ELSE "ArrowRight"}
    /\ last' = Did("keydown", IF left THEN "left" ELSE "right")
    /\ UNCHANGED <<joystick, variant, colliderBoxes, position, heading, isRunning,
                   canJump, verticalVelocity, bunnyHopMultiplier, isCrouching,
                   baseSpeed, normalSpeed, activeControls, enabled>>

\* keyup of ArrowLeft / ArrowRight ("mobile").
SideArrowKeyUp(left) ==
    /\ variant = "mobile"
    /\ move' = [move EXCEPT ![IF left THEN "left" ELSE "right"] = FALSE]
    /\ held' = held \ {IF left THEN "ArrowLeft" ELSE "ArrowRight"}
    /\ last' = Did("keyup", IF left THEN "left" ELSE "right")
    /\ UNCHANGED <<joystick, variant, colliderBoxes, position, heading, isRunning,
                   canJump, verticalVelocity, bunnyHopMultiplier, isCrouching,
                   baseSpeed, normalSpeed, activeControls, enabled>>

(***************************************************************************)
(* The on-screen joystick of "mobile".  A pointer is the mouse or a touch; *)
(* its place is given in pixels from the centre of the joystick.           *)
(***************************************************************************)
maxJoystickDistance == 35
threshold == 200

mouse == 0
Pointers == 0..MaxTouches

\* Places of the pointer: the centre, full forward, on the threshold to the
\* right, just past it to the left, and outside the ring (right and backward).
PointerSet == { <<0, 0>>, <<0, -35>>, <<7, 0>>, <<-8, 0>>, <<30, 40>> }

sqrt(n) == CHOOSE d \in 0..n : d * d <= n /\ (d + 1) * (d + 1) > n

\* joystickVector.set(...): delta / maxJoystickDistance inside the ring, the unit
\* vector of delta outside it; the screen's y axis points down.
joystickVectorAt(at) ==
    LET deltaX == at[1]
        deltaY == at[2]
        distance == sqrt(deltaX * deltaX + deltaY * deltaY)
    IN  IF deltaX * deltaX + deltaY * deltaY <= maxJoystickDistance * maxJoystickDistance
        THEN [x |-> TruncDiv(deltaX * 1000, maxJoystickDistance),
              y |-> TruncDiv(-deltaY * 1000, maxJoystickDistance)]
        ELSE [x |-> TruncDiv(deltaX * 1000, distance),
              y |-> TruncDiv(-deltaY * 1000, distance)]

\* "Update movement state based on joystick".
joystickFlags(v) ==
    [forward |-> v.y > threshold, backward |-> v.y < -threshold,
     left |-> v.x < -threshold, right |-> v.x > threshold]

\* handleJoystickStart: touchstart or mousedown on the joystick.
JoystickStart(p) ==
    /\ variant = "mobile"
    /\ p \notin stickPointer
    /\ joystickActive' = TRUE
    /\ joystickTouchId' = IF p = mouse THEN noTouch ELSE p
    /\ stickPointer' = stickPointer \cup {p}
    /\ last' = Did("joystickStart", "")
    /\ UNCHANGED <<joystickVector, held, variant, colliderBoxes, position, heading,
                   move, isRunning, canJump, verticalVelocity, bunnyHopMultiplier,
                   isCrouching, baseSpeed, normalSpeed, activeControls, enabled>>

\* handleJoystickMove: touchmove of a touch that began on the joystick, or
\* mousemove anywhere in the document.
JoystickMove(p, at) ==
    /\ variant = "mobile"
    /\ p = mouse \/ p \in stickPointer
    /\ IF joystickActive /\ (p = mouse \/ p = joystickTouchId)
       THEN /\ joystickVector' = joystickVectorAt(at)
            /\ move' = joystickFlags(joystickVector')
            /\ last' = Did("joystickMove", "set")
       ELSE /\ UNCHANGED <<joystickVector, move>>
            /\ last' = Did("joystickMove", "ignored")
    /\ UNCHANGED <<joystickActive, joystickTouchId, stickPointer, held, variant,
                   colliderBoxes, position, heading, isRunning, canJump,
                   verticalVelocity, bunnyHopMultiplier, isCrouching, baseSpeed,
                   normalSpeed, activeControls, enabled>>

\* handleJoystickEnd: touchend of a touch that began on the joystick, or mouseup
\* anywhere in the document.
JoystickEnd(p) ==
    /\ variant = "mobile"
    /\ p = mouse \/ p \in stickPointer
    /\ stickPointer' = stickPointer \ {p}
    /\ IF (p = mouse /\ joystickActive)
          \/ (p # mouse /\ (joystickTouchId = noTouch \/ joystickTouchId = p))
       THEN /\ joystickActive' = FALSE
            /\ joystickTouchId' = noTouch
            /\ joystickVector' = [x |-> 0, y |-> 0]
            /\ move' = [forward |-> FALSE, backward |-> FALSE,
                        left |-> FALSE, right |-> FALSE]
            /\ last' = Did("joystickEnd", "ended")
       ELSE /\ UNCHANGED <<joystickActive, joystickTouchId, joystickVector, move>>
            /\ last' = Did("joystickEnd", "ignored")
    /\ UNCHANGED <<held, variant, colliderBoxes, position, heading, isRunning,
                   canJump, verticalVelocity, bunnyHopMultiplier, isCrouching,
                   baseSpeed, normalSpeed, activeControls, enabled>>

(***************************************************************************)
(* The program from construction.                                          *)
(***************************************************************************)
Construct(scenes) ==
    /\ variant \in {"main", "mobile"}
    /\ joystickActive = TRUE
    /\ joystickTouchId = noTouch
    /\ joystickVector = [x |-> 0, y |-> 0]
    /\ held = {}
    /\ stickPointer = {}
    /\ colliderBoxes \in scenes
    /\ position = Vec(250000, 20000, 0)
    /\ heading = "-x"
    /\ move = [forward |-> FALSE, backward |-> FALSE, left |-> FALSE, right |-> FALSE]
    /\ isRunning = FALSE
    /\ canJump = TRUE
    /\ verticalVelocity = 0
    /\ bunnyHopMultiplier = 1000
    /\ isCrouching = FALSE
    /\ baseSpeed = initBaseSpeed
    /\ normalSpeed = initBaseSpeed
    /\ activeControls = "orbit"
    /\ enabled = [orbit |-> TRUE, fps |-> FALSE]
    /\ last = Did("init", "")

(***************************************************************************)
(* Spec: locomotion in a walled pit (no sprint): direction keys, jump,     *)
(* crouch, mode switches and frames, over the scenes above.                *)
(***************************************************************************)
Init == Construct(Scenes)

Next ==
    \/ \E f \in {"forward", "backward"} : MoveKeyDown(f)
    \/ \E f \in {"forward", "backward"} : MoveKeyUp(f)
    \/ SpaceDown
    \/ HandleJump
    \/ AltDown
    \/ KeyCDown
    \/ ControlUp
    \/ ActivateOrbitControls
    \/ ActivateFPSControls
    \/ \E dt \in DeltaSet : Tick(dt)

Spec == Init /\ [][Next]_vars

(***************************************************************************)
(* SpecHop: sprinting and chained jumps (no crouch).                       *)
(***************************************************************************)
InitHop == Construct(HopScenes)

NextHop ==
    \/ MoveKeyDown("forward")
    \/ MoveKeyUp("forward")
    \/ \E down \in BOOLEAN : ShiftKey(down)
    \/ SpaceDown
    \/ HandleJump
    \/ ActivateOrbitControls
    \/ ActivateFPSControls
    \/ \E dt \in DeltaSet : Tick(dt)

SpecHop == InitHop /\ [][NextHop]_vars

(***************************************************************************)
(* Frames with time passing, and their scheduling: animate() requests the  *)
(* next frame before anything else, so frames keep coming.                 *)
(***************************************************************************)
Frame == \E dt \in FineDeltaSet : Tick(dt)

(***************************************************************************)
(* SpecScenario: the end-to-end scenario.  One collider spanning           *)
(* x:[0,10], y:[0,5], z:[0,10]; the player at (5, 10, -5) in first-person  *)
(* mode, no input, frames only.                                            *)
(***************************************************************************)
scenarioBox == Box(0, 10000, 0, 5000, 0, 10000)

InitScenario ==
    /\ variant \in {"main", "mobile"}
    /\ joystickActive = TRUE
    /\ joystickTouchId = noTouch
    /\ joystickVector = [x |-> 0, y |-> 0]
    /\ held = {}
    /\ stickPointer = {}
    /\ colliderBoxes = <<scenarioBox>>
    /\ position = Vec(5000, 10000, -5000)
    /\ heading = "-x"
    /\ move = [forward |-> FALSE, backward |-> FALSE, left |-> FALSE, right |-> FALSE]
    /\ isRunning = FALSE
    /\ canJump \in BOOLEAN
    /\ verticalVelocity = 0
    /\ bunnyHopMultiplier = 1000
    /\ isCrouching = FALSE
    /\ baseSpeed = initBaseSpeed
    /\ normalSpeed = initBaseSpeed
    /\ activeControls = "fps"
    /\ enabled = [orbit |-> FALSE, fps |-> TRUE]
    /\ last = Did("init", "")

NextScenario == Frame

SpecScenario == InitScenario /\ [][NextScenario]_vars /\ WF_vars(Frame)

(***************************************************************************)
(* SpecFall: a drop onto the fallback plane.  Empty registry, first-person *)
(* mode, the player up to MaxDrop units above its ground reference; frames *)
(* and crouch keys, no jump and no fly.                                    *)
(***************************************************************************)
InitFall ==
    /\ variant \in {"main", "mobile"}
    /\ joystickActive = TRUE
    /\ joystickTouchId = noTouch
    /\ joystickVector = [x |-> 0, y |-> 0]
    /\ held = {}
    /\ stickPointer = {}
    /\ colliderBoxes = <<>>
    /\ isCrouching \in (IF variant = "main" THEN BOOLEAN ELSE {FALSE})
    /\ \E k \in 0..(2 * MaxDrop) :
          position = Vec(spawnX, fallbackGround + 500 * k, spawnZ)
    /\ heading = "-x"
    /\ move = [forward |-> FALSE, backward |-> FALSE, left |-> FALSE, right |-> FALSE]
    /\ isRunning = FALSE
    /\ canJump \in BOOLEAN
    /\ verticalVelocity = 0
    /\ bunnyHopMultiplier = 1000
    /\ baseSpeed = (IF isCrouching THEN crouchSpeed ELSE initBaseSpeed)
    /\ normalSpeed = initBaseSpeed
    /\ activeControls = "fps"
    /\ enabled = [orbit |-> FALSE, fps |-> TRUE]
    /\ last = Did("init", "")

NextFall ==
    \/ Frame
    \/ Tick(0)
    \/ KeyCDown
    \/ ControlUp

SpecFall == InitFall /\ [][NextFall]_vars /\ WF_vars(Frame)

(***************************************************************************)
(* SpecWalk: walking on the fallback plane among walls (no jump, no        *)
(* sprint): forward and right keys, frames, respawn.                       *)
(***************************************************************************)
pillar == SceneBox(-3000, -900, -30000, 30000, -3000, -900)
wallX  == SceneBox(-3000, -900, -30000, 30000, -20000, 20000)
wallZ  == SceneBox(-20000, 20000, -30000, 30000, -3000, -900)

WalkScenes == { <<>>, <<pillar>>, <<wallX>>, <<wallX, wallZ>> }

InitWalk == Construct(WalkScenes)

NextWalk ==
    \/ \E f \in {"forward", "right"} : MoveKeyDown(f)
    \/ \E f \in {"forward", "right"} : MoveKeyUp(f)
    \/ ActivateFPSControls
    \/ \E dt \in DeltaSet : Tick(dt)

SpecWalk == InitWalk /\ [][NextWalk]_vars

(***************************************************************************)
(* SpecArrows: the arrow keys, the letter keys for forward and backward,   *)
(* first-person mode and frames.                                           *)
(***************************************************************************)
InitArrows == Construct(ArrowScenes)

NextArrows ==
    \/ \E up \in BOOLEAN : ArrowKeyDown(up)
    \/ \E up \in BOOLEAN : ArrowKeyUp(up)
    \/ \E f \in {"forward", "backward"} : MoveKeyDown(f)
    \/ \E f \in {"forward", "backward"} : MoveKeyUp(f)
    \/ ActivateFPSControls
    \/ \E dt \in DeltaSet : Tick(dt)

SpecArrows == InitArrows /\ [][NextArrows]_vars

(***************************************************************************)
(* SpecShift: the debug keys that move the registry (arrows by 1, page     *)
(* keys by 0.1), first-person mode and frames.                             *)
(***************************************************************************)
InitShift == Construct(ArrowScenes)

NextShift ==
    \/ \E up \in BOOLEAN : ArrowKeyDown(up)
    \/ \E up \in BOOLEAN : PageKeyDown(up)
    \/ ActivateFPSControls
    \/ \E dt \in DeltaSet : Tick(dt)

SpecShift == InitShift /\ [][NextShift]_vars

(***************************************************************************)
(* SpecRugged: registries with degenerate and overlapping colliders: a     *)
(* sheet of zero thickness, the empty box of a mesh without geometry, two  *)
(* platforms one inside the other; and a roof.  Forward key, jump, mode    *)
(* switches and frames.                                                    *)
(***************************************************************************)
infinity == 1000000000

\* new THREE.Box3() before any point is added: min = +Infinity, max = -Infinity.
emptyBox == Box(infinity, -infinity, infinity, -infinity, infinity, -infinity)
sheet == SceneBox(-2000, 2000, 300, 300, -2000, 2000)

RuggedScenes == { <<>>, <<emptyBox>>, <<sheet>>, <<platform>>, <<step, platform>>,
                  <<emptyBox, sheet, platform>>, <<roof>> }

InitRugged == Construct(RuggedScenes)

NextRugged ==
    \/ MoveKeyDown("forward")
    \/ MoveKeyUp("forward")
    \/ SpaceDown
    \/ HandleJump
    \/ ActivateOrbitControls
    \/ ActivateFPSControls
    \/ \E dt \in DeltaSet : Tick(dt)

SpecRugged == InitRugged /\ [][NextRugged]_vars

(***************************************************************************)
(* SpecAir: jumping and flying over the fallback plane.  Empty registry;   *)
(* jump, fly and crouch keys, mode switches and frames.                    *)
(***************************************************************************)
InitAir == Construct({<<>>})

NextAir ==
    \/ SpaceDown
    \/ HandleJump
    \/ AltDown
    \/ KeyCDown
    \/ ControlUp
    \/ ActivateOrbitControls
    \/ ActivateFPSControls
    \/ \E dt \in DeltaSet : Tick(dt)

SpecAir == InitAir /\ [][NextAir]_vars

(***************************************************************************)
(* SpecAxis: walking along one axis at a time with all four direction      *)
(* keys: a key goes down only while no key of the other axis is held.      *)
(***************************************************************************)
axisOf(f) == IF f \in {"forward", "backward"} THEN "z" ELSE "x"

otherAxisFree(f) == \A g \in DOMAIN move : move[g] => axisOf(g) = axisOf(f)

InitAxis == Construct({<<>>, <<pillar>>})

NextAxis ==
    \/ \E f \in DOMAIN move : otherAxisFree(f) /\ MoveKeyDown(f)
    \/ \E f \in DOMAIN move : MoveKeyUp(f)
    \/ ActivateFPSControls
    \/ \E dt \in DeltaSet : Tick(dt)

SpecAxis == InitAxis /\ [][NextAxis]_vars

(***************************************************************************)
(* SpecInput: the input layer alone: the letter and arrow keys of the left *)
(* and forward flags and the joystick, in any interleaving; a key goes up  *)
(* only when it is down.                                                   *)
(***************************************************************************)
InitInput == Construct({<<>>})

NextInput ==
    \/ \E f \in {"forward", "left"} : MoveKeyDown(f)
    \/ \E f \in {"forward", "left"} : letterKey(f) \in held /\ MoveKeyUp(f)
    \/ SideArrowKeyDown(TRUE)
    \/ "ArrowLeft" \in held /\ SideArrowKeyUp(TRUE)
    \/ \E p \in Pointers : JoystickStart(p)
    \/ \E p \in Pointers, at \in PointerSet : JoystickMove(p, at)
    \/ \E p \in Pointers : JoystickEnd(p)

SpecInput == InitInput /\ [][NextInput]_vars

(***************************************************************************)
(* SpecCrouch: walking and sprinting on the fallback plane with the crouch *)
(* keys.  Empty registry; forward key, sprint key, crouch keys,            *)
(* first-person mode and frames.                                           *)
(***************************************************************************)
InitCrouch == Construct({<<>>})

NextCrouch ==
    \/ MoveKeyDown("forward")
    \/ MoveKeyUp("forward")
    \/ \E down \in BOOLEAN : ShiftKey(down)
    \/ KeyCDown
    \/ ControlUp
    \/ ActivateFPSControls
    \/ \E dt \in DeltaSet : Tick(dt)

SpecCrouch == InitCrouch /\ [][NextCrouch]_vars

(***************************************************************************)
(* Vocabulary of the properties, stated without the model's operators      *)
(* where the property is about them.                                       *)
(***************************************************************************)
\* Closed-interval intersection: touching faces count.
Overlaps(a, b) ==
    /\ a.min.x <= b.max.x /\ b.min.x <= a.max.x
    /\ a.min.y <= b.max.y /\ b.min.y <= a.max.y
    /\ a.min.z <= b.max.z /\ b.min.z <= a.max.z

\* Intersection of the interiors: the boxes share volume.
Penetrates(a, b) ==
    /\ a.min.x < b.max.x /\ b.min.x < a.max.x
    /\ a.min.y < b.max.y /\ b.min.y < a.max.y
    /\ a.min.z < b.max.z /\ b.min.z < a.max.z

Intersecting(t) == {i \in 1..Len(colliderBoxes) : Overlaps(t, colliderBoxes[i])}

GroundReference == IF isCrouching THEN groundHeight + crouchOffset ELSE groundHeight

FpsTickDone == last.op = "tick" /\ last.out # "orbit"
Grounded(h) == h.op = "tick" /\ (h.out = "landed" \/ h.clamped)
Jumped(h) == h.op \in {"space", "jumpButton"} /\ h.out = "jumped"

locomotion == <<position, verticalVelocity, canJump, bunnyHopMultiplier,
                isCrouching, baseSpeed, normalSpeed>>

(***************************************************************************)
(* C1.  End-to-end scenario.                                               *)
(***************************************************************************)
\* C1 (as claimed): in the scenario, whenever a tick has grounded the player, the
\* player is on top of the box: position.y = 5 (the box's max.y), vertical
\* velocity 0 and can-jump true.
C1_LandsOnTheBox ==
    Grounded(last) =>
        (position.y = scenarioBox.max.y /\ verticalVelocity = 0 /\ canJump)

\* C1 (amended): in the scenario the player, whose capsule at z = -5 is outside
\* the box's footprint z:[0,10], never lands on the box; repeated ticks end with
\* the player on the fallback plane: position.y = groundHeight, vertical velocity
\* 0 and can-jump true, from then on.
C1_LandsOnTheFallbackPlane ==
    /\ [](last.out # "landed")
    /\ <>[](position.y = groundHeight /\ verticalVelocity = 0 /\ canJump)

C1_Witness ==
    /\ last.op = "tick" /\ last.out = "fall" /\ last.clamped
    /\ position = Vec(5000, groundHeight, -5000)
    /\ verticalVelocity = 0 /\ canJump

(***************************************************************************)
(* C2.  Fallback floor invariant.                                          *)
(***************************************************************************)
\* C2: at the end of every first-person tick position.y is at or above the ground
\* reference (groundHeight, lowered by the crouch offset when crouching), and a
\* tick that clamps leaves position.y on the reference, vertical velocity 0 and
\* can-jump true.
C2_FallbackFloor ==
    FpsTickDone =>
        /\ position.y >= GroundReference
        /\ last.clamped =>
              (position.y = GroundReference /\ verticalVelocity = 0 /\ canJump)

C2_Witness ==
    FpsTickDone /\ last.out = "fall" /\ last.clamped /\ isCrouching
        /\ position.y = groundHeight + crouchOffset

(***************************************************************************)
(* C3.  Fallback floor liveness.                                           *)
(***************************************************************************)
\* C3: with an empty registry and no jump or fly event, frames with dt > 0
\* eventually bring the player to position.y = the ground reference with vertical
\* velocity 0, and it stays so from then on.
C3_ComesToRestOnThePlane ==
    <>[](position.y = GroundReference /\ verticalVelocity = 0)

C3_Witness ==
    /\ FpsTickDone /\ last.out = "fall" /\ last.clamped
    /\ colliderBoxes = <<>> /\ isCrouching
    /\ position.y = GroundReference /\ verticalVelocity = 0

(***************************************************************************)
(* C4.  Idempotent rest.                                                   *)
(***************************************************************************)
Footprint(p) == horizontalTestBox(p)

\* The player stands on collider i: over it and with its feet exactly on its top.
StandsOn(i) ==
    /\ position.y = colliderBoxes[i].max.y
    /\ Overlaps(Footprint(position), colliderBoxes[i])

\* The capsule shares no volume with any collider.
NotEmbedded ==
    \A i \in 1..Len(colliderBoxes) : ~ Penetrates(Footprint(position), colliderBoxes[i])

AtRest ==
    /\ activeControls = "fps" /\ noDirection /\ verticalVelocity = 0
    /\ NotEmbedded
    /\ \/ \E i \in 1..Len(colliderBoxes) : StandsOn(i)
       \/ position.y = GroundReference

\* C4 (as claimed; "rests" read as: feet on the top or the plane, capsule inside no
\* collider): a first-person tick from rest with no directional flag held and
\* vertical velocity 0 leaves position unchanged and can-jump true.
C4_RestIsIdempotent ==
    [][(AtRest /\ last'.op = "tick") => (position' = position /\ canJump')]_vars

(***************************************************************************)
(* C5.  Jump gate.                                                         *)
(***************************************************************************)
HeadClear == Intersecting(headTestBox(position)) = {}

\* C5: a Space key-down sets vertical velocity to jumpStrength and clears can-jump
\* when can-jump is true, the player is not crouching and no collider intersects
\* the head-check box; in every other case (a collider at the head in particular)
\* it changes nothing: vertical velocity, can-jump and the multiplier included.
C5_JumpGate ==
    [][last'.op = "space" =>
          IF canJump /\ ~isCrouching /\ HeadClear
          THEN /\ verticalVelocity' = jumpStrength /\ ~canJump'
               /\ UNCHANGED <<position, isCrouching, colliderBoxes, activeControls>>
          ELSE UNCHANGED <<locomotion, colliderBoxes, activeControls, move, isRunning>>
      ]_vars

C5_Witness ==
    /\ last.op = "space" /\ last.out = "headBlocked"
    /\ canJump /\ ~isCrouching /\ ~HeadClear /\ verticalVelocity = 0

(***************************************************************************)
(* C6.  Bunny-hop cap.                                                     *)
(***************************************************************************)
\* C6: in every reachable state 1 <= bunnyHopMultiplier <= maxBunnyHop (5).
C6_BunnyHopCap == 1000 <= bunnyHopMultiplier /\ bunnyHopMultiplier <= 5000

C6_Witness ==
    Jumped(last) /\ isRunning /\ bunnyHopMultiplier = 5000

(***************************************************************************)
(* C7.  Bunny-hop change discipline.                                       *)
(***************************************************************************)
\* C7: the multiplier changes only by growing to min(multiplier * 1.1, cap) in a
\* successful jump made while running, and by being reset to 1 in a first-person
\* tick that ends grounded with no directional flag held; both always happen, and
\* a grounded tick with a flag held, an airborne tick and every other event leave
\* it unchanged.
C7_ChangeDiscipline ==
    [][LET grown == IF (bunnyHopMultiplier * 11) \div 10 < 5000
                    THEN (bunnyHopMultiplier * 11) \div 10 ELSE 5000
       IN  IF Jumped(last') /\ isRunning THEN bunnyHopMultiplier' = grown
           ELSE IF Grounded(last') /\ noDirection THEN bunnyHopMultiplier' = 1000
           ELSE bunnyHopMultiplier' = bunnyHopMultiplier
      ]_vars

C7_Witness ==
    Grounded(last) /\ ~noDirection /\ bunnyHopMultiplier > 1000

(***************************************************************************)
(* C8.  Sliding resolution order.                                          *)
(***************************************************************************)
Blocked(p) == Intersecting(horizontalTestBox(p)) # {}

\* C8: the horizontal place a first-person tick commits is desired if desired is
\* unblocked, else (desired.x, current.z) if unblocked, else (current.x,
\* desired.z) if unblocked, else current; when the diagonal is blocked and both
\* sub-moves are free, the X-only one is taken.
C8_SlidingOrder ==
    [][\A dt \in DeltaSet :
          (activeControls = "fps" /\ Tick(dt)) =>
             LET cur == position
                 des == desiredPos(dt)
                 xOnly == Vec(des.x, cur.y, cur.z)
                 zOnly == Vec(cur.x, cur.y, des.z)
                 res == IF ~Blocked(des) THEN des
                        ELSE IF ~Blocked(xOnly) THEN xOnly
                        ELSE IF ~Blocked(zOnly) THEN zOnly
                        ELSE cur
             IN  /\ position'.x = res.x /\ position'.z = res.z
                 /\ (Blocked(des) /\ ~Blocked(xOnly) /\ ~Blocked(zOnly)) =>
                        (position'.x = des.x /\ position'.z = cur.z)
      ]_vars

C8_Witness ==
    /\ last.op = "tick" /\ last.slide = "xOnlyTie"
    /\ position.x # spawnX /\ position.z = spawnZ

(***************************************************************************)
(* C9.  First-match determinism.                                           *)
(***************************************************************************)
FirstMatch(r, t) ==
    /\ r.collision <=> Intersecting(t) # {}
    /\ r.collision =>
          /\ r.index \in Intersecting(t)
          /\ \A j \in Intersecting(t) : r.index <= j
          /\ r.box = colliderBoxes[r.index]

\* C9: at the player's place, the vertical checks and the head check report a
\* collision iff some collider intersects their query box (closed intervals), the
\* collider returned is the earliest registered among those, and the horizontal
\* check is true iff some collider intersects its box.
C9_FirstMatch ==
    /\ FirstMatch(checkVerticalCollision(position, "up"), verticalTestBox(position, "up"))
    /\ FirstMatch(checkVerticalCollision(position, "down"), verticalTestBox(position, "down"))
    /\ FirstMatch(checkHeadCollision(position), headTestBox(position))
    /\ checkHorizontalCollision(position) <=> Blocked(position)

C9_Witness ==
    /\ Cardinality(Intersecting(verticalTestBox(position, "down"))) >= 2
    /\ checkVerticalCollision(position, "down").index = 1
    /\ \E i \in 1..Len(colliderBoxes) :
          /\ horizontalTestBox(position).min.y = colliderBoxes[i].max.y
          /\ Overlaps(horizontalTestBox(position), colliderBoxes[i])

(***************************************************************************)
(* C10.  Mode-switch idempotence.                                          *)
(***************************************************************************)
\* C10 (as claimed): activating the mode that is already active leaves the active
\* mode, the camera position and the locomotion state as they were.
C10_RepeatedActivationIsNoOp ==
    [][(\/ last'.op = "activateFPS" /\ activeControls = "fps"
        \/ last'.op = "activateOrbit" /\ activeControls = "orbit")
       => UNCHANGED <<activeControls, locomotion>>]_vars

(***************************************************************************)
(* C11.  Orbit freeze.                                                     *)
(***************************************************************************)
\* C11: a frame taken while orbit mode is active leaves vertical velocity, the
\* bunny-hop multiplier, can-jump and the crouch flag as they were, whatever the
\* frame time and the flags held.
C11_OrbitFreeze ==
    [][(activeControls = "orbit" /\ last'.op = "tick")
       => UNCHANGED <<verticalVelocity, bunnyHopMultiplier, canJump, isCrouching>>]_vars

C11_Witness ==
    /\ last.op = "tick" /\ last.out = "orbit" /\ activeControls = "orbit"
    /\ verticalVelocity > 0 /\ ~canJump

(***************************************************************************)
(* C12.  Mode-switch effect.                                               *)
(***************************************************************************)
\* C12: activating first-person mode puts the camera at (150, groundHeight, 0)
\* wherever it was and leaves vertical velocity, the multiplier, can-jump and the
\* crouch flag unchanged; activating orbit mode leaves these and the camera
\* position unchanged.
C12_ModeSwitchEffect ==
    [][/\ last'.op = "activateFPS" =>
            /\ position' = [x |-> 150000, y |-> groundHeight, z |-> 0]
            /\ activeControls' = "fps"
            /\ UNCHANGED <<verticalVelocity, bunnyHopMultiplier, canJump, isCrouching>>
       /\ last'.op = "activateOrbit" =>
            /\ activeControls' = "orbit"
            /\ UNCHANGED <<position, verticalVelocity, bunnyHopMultiplier, canJump,
                           isCrouching>>
      ]_vars

C12_Witness ==
    /\ last.op = "activateFPS" /\ position = [x |-> 150000, y |-> groundHeight, z |-> 0]
    /\ verticalVelocity > 0 /\ ~canJump

(***************************************************************************)
(* C13, C14, C15.  Crouch.                                                 *)
(***************************************************************************)
\* No collider intersects the head box at the stand-up position.
StandUpClear ==
    Intersecting(headTestBox([position EXCEPT !.y = @ - crouchOffset])) = {}

\* C13 (as claimed): a press of the crouch key while standing enters crouch, and
\* a press of the same key while crouching, with head clearance at the stand-up
\* position, exits crouch.
C13_CrouchKeyToggles ==
    [][last'.op = "keyC" =>
          IF ~isCrouching THEN isCrouching'
          ELSE (StandUpClear => ~isCrouching')]_vars

\* C14: entering crouch lowers position.y by 0.7, saves the base speed and sets it
\* to crouchSpeed; a stand-up with head clearance that follows at once raises
\* position.y by 0.7, restores the saved base speed and clears the crouch flag, so
\* the three are back at their values before the crouch.
C14_CrouchRoundTrip ==
    [][/\ (last'.op = "keyC" /\ last'.out = "crouched") =>
            /\ ~isCrouching /\ isCrouching'
            /\ position' = [position EXCEPT !.y = @ - 700]
            /\ baseSpeed' = 1000 /\ normalSpeed' = baseSpeed
       /\ (last.op = "keyC" /\ last.out = "crouched" /\ last'.op = "controlUp"
              /\ StandUpClear) =>
            /\ position' = [position EXCEPT !.y = @ + 700]
            /\ baseSpeed' = normalSpeed
            /\ ~isCrouching'
      ]_vars

C14_Witness ==
    /\ last.op = "controlUp" /\ last.out = "stood"
    /\ ~isCrouching /\ baseSpeed = 4000 /\ position.y = groundHeight

\* C15: a stand-up request made while crouching with a collider in the head box
\* at the stand-up position is refused: the crouch flag stays true and position,
\* base speed, vertical velocity and can-jump are unchanged.
C15_RefusedStandUp ==
    [][(last'.op = "controlUp" /\ isCrouching /\ ~StandUpClear) =>
          /\ isCrouching'
          /\ UNCHANGED <<position, baseSpeed, verticalVelocity, canJump>>]_vars

C15_Witness ==
    /\ last.op = "controlUp" /\ last.out = "refused"
    /\ isCrouching /\ ~StandUpClear /\ baseSpeed = 1000

(***************************************************************************)
(* C16.  Movement input and the registry.                                  *)
(***************************************************************************)
\* C16 (as claimed): a key-down or key-up for one of the four directional
\* actions changes nothing but the movement flags: every collider's min and max
\* are unchanged.
C16_CollidersImmutableUnderMovementInput ==
    [][(last'.op \in {"keydown", "keyup"}
          /\ last'.out \in {"forward", "backward", "left", "right"}) =>
        UNCHANGED <<colliderBoxes, position, verticalVelocity, canJump,
                    bunnyHopMultiplier, isCrouching>>]_vars

(***************************************************************************)
(* C17.  The on-screen jump button against the Space key.                  *)
(***************************************************************************)
\* C17 (as claimed): in every state, whichever camera mode is active, a press of
\* the on-screen jump button leaves vertical velocity, can-jump flag and bunny-hop
\* multiplier as a Space key-down in the same state would.
C17_ButtonEqualsSpace ==
    [][last'.op = "jumpButton" => jumpEffect(jumpGate)]_vars

(***************************************************************************)
(* C18.  Can-jump timing on the fallback floor.                            *)
(***************************************************************************)
\* A first-person tick of a player above its ground reference, empty registry.
AirborneTick ==
    /\ colliderBoxes = <<>>
    /\ position.y > GroundReference
    /\ last'.op = "tick" /\ last'.out # "orbit"

StepLengthSquared ==
    (position'.x - position.x) * (position'.x - position.x)
        + (position'.z - position.z) * (position'.z - position.z)

Held(flags) == \A f \in DOMAIN move : move[f] <=> f \in flags

\* C19: with no collider in the way, a tick with forward alone held moves the
\* player by speed*dt, and a tick with forward and right held moves it by the same
\* length: the squared length is (speed*dt)^2 up to the rounding of the
\* components (one part in a thousand), never 2*(speed*dt)^2, and the two
\* components have the same size.
C19_DiagonalNormalization ==
    [][\A dt \in DeltaSet :
          (last'.op = "tick" /\ last'.slide = "full" /\ activeControls = "fps"
             /\ position' = [desiredPos(dt) EXCEPT !.y = position'.y]) =>
            LET d == TruncDiv(TruncDiv((IF isRunning THEN runSpeed ELSE baseSpeed)
                                          * bunnyHopMultiplier, 1000) * dt, 1000)
                s == StepLengthSquared
            IN  /\ Held({"forward"}) => s = d * d
                /\ Held({"forward", "right"}) =>
                      /\ s <= d * d
                      /\ \E f \in 0..d :
                            /\ s = 2 * f * f
                            /\ 999 * ((d * d) \div 1000) <= 2 * (f + 1) * (f + 1)
                            /\ (position'.x - position.x) \in {f, -f}
                            /\ (position'.z - position.z) \in {f, -f}
      ]_vars

C19_Witness ==
    /\ last.op = "tick" /\ last.slide = "full"
    /\ Held({"forward", "right"})
    /\ position = Vec(spawnX - 565, groundHeight, spawnZ - 565)

(***************************************************************************)
(* C20.  Opposite inputs cancel.                                           *)
(***************************************************************************)
\* C20: a first-person tick with forward and backward held and neither left nor
\* right, or with left and right held and neither forward nor backward, leaves
\* position.x and position.z unchanged; the tick is carried out like any other.
C20_OppositeInputsCancel ==
    [][(last'.op = "tick" /\ activeControls = "fps"
          /\ (Held({"forward", "backward"}) \/ Held({"left", "right"}))) =>
        (position'.x = position.x /\ position'.z = position.z
           /\ last'.out # "orbit" /\ last'.slide = "full")]_vars

C20_Witness ==
    /\ FpsTickDone /\ Held({"left", "right"})
    /\ position.z # spawnZ /\ position.x = spawnX

(***************************************************************************)
(* C21.  Debug Y-shift.                                                    *)
(***************************************************************************)
\* Registry b is registry a with every collider moved by delta along y and
\* nothing else changed.
ShiftedBy(a, b, delta) ==
    /\ Len(b) = Len(a)
    /\ \A i \in 1..Len(a) :
          /\ b[i].min.y = a[i].min.y + delta /\ b[i].max.y = a[i].max.y + delta
          /\ b[i].max.y - b[i].min.y = a[i].max.y - a[i].min.y
          /\ b[i].min.x = a[i].min.x /\ b[i].max.x = a[i].max.x
          /\ b[i].min.z = a[i].min.z /\ b[i].max.z = a[i].max.z

\* The shift a debug key asks for, read from the key that went down.
ShiftKeys == {"page", "arrow", "keydown"}

shiftAsked(h) ==
    (IF h.op = "page" THEN 100 ELSE 1000)
        * (IF h.out \in {"up", "forward"} THEN 1 ELSE -1)

Usable(r) ==
    r.collision =>
        /\ r.box # null
        /\ \E i \in 1..Len(colliderBoxes) : r.box = colliderBoxes[i]

\* The candidate positions at which a tick of frame time dt runs its vertical
\* checks, from the current state.
candidate(dt) ==
    LET p == getValidMovement(position, desiredPos(dt))
        v == verticalVelocity + gravity * dt
    IN  Vec(p.x, p.y + TruncDiv(v * dt, 1000), p.z)

\* C22: in every reachable state, whatever the registry (empty, with degenerate
\* colliders, with overlapping colliders), the vertical checks of the next tick
\* return a collider whenever they report a collision, so that the tick can read
\* its min.y or max.y, and a frame can run.
C22_NoFatalFailure ==
    /\ \A dt \in DeltaSet :
          /\ Usable(checkVerticalCollision(candidate(dt), "up"))
          /\ Usable(checkVerticalCollision(candidate(dt), "down"))
    /\ ENABLED Tick(0)

C22_Witness ==
    /\ last.op = "tick" /\ last.out = "landed"
    /\ colliderBoxes = <<emptyBox, sheet, platform>>
    /\ last.index = 2 /\ position.y = sheet.max.y

(***************************************************************************)
(* C23, C24.  The landing step and the ceiling step.                       *)
(***************************************************************************)
\* The capsule-sized box centred at height yc over the place (x, z).
CapsuleBoxAt(x, yc, z) ==
    Box(x - 400, x + 400, yc - 900, yc + 900, z - 400, z + 400)

Earliest(S) == CHOOSE i \in S : \A j \in S : i <= j

\* The step ends as the vertical outcome pre says, after the fallback clamp.
EndsAs(pre) ==
    IF pre.y <= GroundReference
    THEN position'.y = GroundReference /\ verticalVelocity' = 0 /\ canJump'
    ELSE position'.y = pre.y /\ verticalVelocity' = pre.v /\ canJump' = pre.canJump

\* C23: in a first-person tick whose velocity after gravity is <= 0, if a collider
\* intersects the foot-level box at the candidate height, velocity becomes 0,
\* can-jump true and position.y the max.y of the first such collider; if none
\* does, position.y becomes the candidate height position.y + velocity*dt (both
\* before the fallback clamp).
C23_LandingStep ==
    [][\A dt \in DeltaSet :
          (activeControls = "fps" /\ Tick(dt)
             /\ verticalVelocity + gravity * dt <= 0) =>
             LET v1    == verticalVelocity + gravity * dt
                 candY == position.y + TruncDiv(v1 * dt, 1000)
                 hits  == Intersecting(CapsuleBoxAt(position'.x, candY, position'.z))
             IN  IF hits # {}
                 THEN EndsAs([y |-> colliderBoxes[Earliest(hits)].max.y,
                              v |-> 0, canJump |-> TRUE])
                 ELSE EndsAs([y |-> candY, v |-> v1, canJump |-> canJump])
      ]_vars

C23_Witness ==
    /\ last.op = "tick" /\ last.out = "landed" /\ ~last.clamped
    /\ Len(colliderBoxes) >= 2 /\ colliderBoxes[1] = step /\ colliderBoxes[2] = platform
    /\ position.y = step.max.y /\ verticalVelocity = 0 /\ canJump

\* C24: in a first-person tick whose velocity after gravity is > 0, if a collider
\* intersects the capsule box at the candidate height, velocity becomes 0,
\* can-jump is left as it was and position.y becomes that collider's min.y -
\* capsule height + 0.1; if none does, position.y becomes the candidate height
\* (both before the fallback clamp).
C24_CeilingStep ==
    [][\A dt \in DeltaSet :
          (activeControls = "fps" /\ Tick(dt)
             /\ verticalVelocity + gravity * dt > 0) =>
             LET v1    == verticalVelocity + gravity * dt
                 candY == position.y + TruncDiv(v1 * dt, 1000)
                 hits  == Intersecting(CapsuleBoxAt(position'.x, candY + 900,
                                                    position'.z))
             IN  IF hits # {}
                 THEN EndsAs([y |-> colliderBoxes[Earliest(hits)].min.y - 1800 + 100,
                              v |-> 0, canJump |-> canJump])
                 ELSE EndsAs([y |-> candY, v |-> v1, canJump |-> canJump])
      ]_vars

C24_Witness ==
    /\ last.op = "tick" /\ last.out = "ceiling"
    /\ colliderBoxes[last.index] = roof
    /\ position.y = roof.min.y - 1700 /\ verticalVelocity = 0 /\ ~canJump

(***************************************************************************)
(* C25.  The ceiling snap.                                                 *)
(***************************************************************************)
\* C25 (as claimed): after a tick that snapped the player under a collider, the
\* capsule, from position.y to position.y + 1.8, does not intersect that collider:
\* its top is at or below the collider's min.y.
C25_SnappedUnderTheObstruction ==
    (last.op = "tick" /\ last.out = "ceiling" /\ ~last.clamped) =>
        /\ position.y + 1800 <= colliderBoxes[last.index].min.y
        /\ ~ Overlaps(Footprint(position), colliderBoxes[last.index])

(***************************************************************************)
(* C26.  Walking on a collider.                                            *)
(***************************************************************************)
\* The capsule at p rests on top of collider i and is clear of every other one.
RestsClearOn(p, i) ==
    /\ p.y = colliderBoxes[i].max.y
    /\ Overlaps(Footprint(p), colliderBoxes[i])
    /\ \A j \in 1..Len(colliderBoxes) : j # i => ~ Overlaps(Footprint(p), colliderBoxes[j])

\* C26 (as claimed): a player resting exactly on top of a collider, its capsule
\* otherwise clear of every collider at the current and at the desired position,
\* holding one directional input, changes position.x or position.z on the next
\* first-person tick with dt > 0.
C26_WalksOnACollider ==
    [][\A dt \in DeltaSet \ {0} :
          (/\ activeControls = "fps" /\ Tick(dt)
           /\ verticalVelocity = 0
           /\ Cardinality({f \in DOMAIN move : move[f]}) = 1
           /\ \E i \in 1..Len(colliderBoxes) :
                 RestsClearOn(position, i) /\ RestsClearOn(desiredPos(dt), i)) =>
             (position'.x # position.x \/ position'.z # position.z)
      ]_vars

(***************************************************************************)
(* C27.  Horizontal non-penetration.                                       *)
(***************************************************************************)
\* C27: the place a first-person tick commits horizontally (at the height the
\* tick began with) is either intersected by no collider or the place the tick
\* began at; so a capsule that intersected no collider before the horizontal
\* move intersects none after it.
C27_HorizontalNonPenetration ==
    [][(activeControls = "fps" /\ last'.op = "tick") =>
          LET committed == Vec(position'.x, position.y, position'.z)
          IN  /\ \/ Intersecting(Footprint(committed)) = {}
                 \/ committed = position
              /\ Intersecting(Footprint(position)) = {} =>
                    Intersecting(Footprint(committed)) = {}
      ]_vars

C27_Witness ==
    /\ last.op = "tick" /\ last.slide \in {"xOnly", "zOnly"}
    /\ Len(colliderBoxes) > 0
    /\ Intersecting(Footprint(position)) = {}
    /\ (position.x # spawnX \/ position.z # spawnZ)

(***************************************************************************)
(* C28.  Axis independence within a tick.                                  *)
(***************************************************************************)
\* What the vertical part of a tick of frame time dt decides over the place
\* (x, z), starting from the current height: ceiling snap, landing snap or the
\* candidate height.
VerticalOutcome(x, z, dt) ==
    LET v1    == verticalVelocity + gravity * dt
        candY == position.y + TruncDiv(v1 * dt, 1000)
        hits  == Intersecting(CapsuleBoxAt(x, IF v1 > 0 THEN candY + 900 ELSE candY, z))
    IN  IF hits = {} THEN [y |-> candY, v |-> v1, canJump |-> canJump]
        ELSE IF v1 > 0
        THEN [y |-> colliderBoxes[Earliest(hits)].min.y - 1700, v |-> 0,
              canJump |-> canJump]
        ELSE [y |-> colliderBoxes[Earliest(hits)].max.y, v |-> 0, canJump |-> TRUE]

\* C28: in a first-person tick the horizontal resolution decides position.x and
\* position.z and nothing the vertical part does changes them; the vertical part
\* starts from the height the tick began with, which the horizontal resolution
\* has not changed; and a tick whose horizontal move is fully rejected still
\* integrates gravity and applies the vertical resolution.
C28_AxisIndependence ==
    [][\A dt \in DeltaSet :
          (activeControls = "fps" /\ Tick(dt)) =>
             LET des == desiredPos(dt)
                 xOnly == Vec(des.x, position.y, position.z)
                 zOnly == Vec(position.x, position.y, des.z)
                 res == IF ~Blocked(des) THEN des
                        ELSE IF ~Blocked(xOnly) THEN xOnly
                        ELSE IF ~Blocked(zOnly) THEN zOnly
                        ELSE position
             IN  /\ res.y = position.y
                 /\ position'.x = res.x /\ position'.z = res.z
                 /\ EndsAs(VerticalOutcome(res.x, res.z, dt))
      ]_vars

C28_Witness ==
    /\ last.op = "tick" /\ last.slide \in {"none", "zOnly"}
    /\ last.out = "rise" /\ ~last.clamped
    /\ move.forward /\ position.x = spawnX /\ position.z = spawnZ
    /\ verticalVelocity > 0 /\ verticalVelocity < jumpStrength
    /\ position.y > GroundReference

(***************************************************************************)
(* C29.  Zero velocity is descending.                                      *)
(***************************************************************************)
\* C29: a first-person tick whose velocity after gravity is exactly 0 takes the
\* downward branch whatever is overhead: if a collider intersects the foot-level
\* box the tick lands on the first such collider (can-jump true, position.y its
\* max.y), and if none does the height is kept; the upward box plays no part.
C29_ZeroIsDescending ==
    [][\A dt \in DeltaSet :
          (activeControls = "fps" /\ Tick(dt)
             /\ verticalVelocity + gravity * dt = 0) =>
             LET foot == Intersecting(CapsuleBoxAt(position'.x, position.y, position'.z))
             IN  /\ last'.out \in {"landed", "fall"}
                 /\ foot # {} =>
                       /\ last'.out = "landed" /\ last'.index = Earliest(foot)
                       /\ EndsAs([y |-> colliderBoxes[Earliest(foot)].max.y,
                                   v |-> 0, canJump |-> TRUE])
                 /\ foot = {} =>
                       /\ last'.out = "fall"
                       /\ EndsAs([y |-> position.y, v |-> 0, canJump |-> canJump])
      ]_vars

C29_Witness ==
    /\ last.op = "tick" /\ last.out = "landed" /\ last.index = 1
    /\ colliderBoxes = <<step, platform>>
    /\ position.y = step.max.y /\ verticalVelocity = 0 /\ canJump
    /\ Intersecting(CapsuleBoxAt(position.x, position.y + 900, position.z)) # {}

(***************************************************************************)
(* C30.  No mid-air jump.                                                  *)
(***************************************************************************)
\* The player is above its fallback reference and on no collider's top.
Airborne ==
    /\ position.y > GroundReference
    /\ \A i \in 1..Len(colliderBoxes) : ~ StandsOn(i)

\* C30 (as claimed): a jump event of an airborne player does not change the
\* vertical velocity.
C30_NoMidAirJump ==
    [][(last'.op \in {"space", "jumpButton"} /\ activeControls = "fps" /\ Airborne) =>
          verticalVelocity' = verticalVelocity]_vars


(***************************************************************************)
(* C31.  No tunnelling.                                                    *)
(***************************************************************************)
\* The registry holds one collider, the player's footprint is over it and its
\* top is above the fallback reference.
OverTheOnlyCollider ==
    /\ Len(colliderBoxes) = 1
    /\ Footprint(position).min.x <= colliderBoxes[1].max.x
    /\ colliderBoxes[1].min.x <= Footprint(position).max.x
    /\ Footprint(position).min.z <= colliderBoxes[1].max.z
    /\ colliderBoxes[1].min.z <= Footprint(position).max.z
    /\ colliderBoxes[1].max.y > GroundReference

\* C31: with a single collider under the player's footprint whose top is above
\* the fallback reference, a first-person tick with no directional input that
\* starts with position.y at or above the collider's top and a vertical velocity
\* that is not upward ends with position.y at or above the collider's top,
\* whatever the frame time.
C31_NoTunnelling ==
    [][(/\ activeControls = "fps" /\ last'.op = "tick"
        /\ OverTheOnlyCollider /\ noDirection
        /\ verticalVelocity <= 0
        /\ position.y >= colliderBoxes[1].max.y)
       => position'.y >= colliderBoxes[1].max.y]_vars


(***************************************************************************)
(* C32.  Orbit mode ignores locomotion input.                              *)
(***************************************************************************)
LocomotionKeys == {"space", "alt", "keyC", "controlUp"}

\* C32: while orbit mode is active, a key event of the jump key (Space), the fly
\* key (Alt) or a crouch key leaves vertical velocity, can-jump, the bunny-hop
\* multiplier, the crouch flag and position.y unchanged.
C32_OrbitIgnoresLocomotionInput ==
    [][(activeControls = "orbit" /\ last'.op \in LocomotionKeys)
       => /\ verticalVelocity' = verticalVelocity
          /\ canJump' = canJump
          /\ bunnyHopMultiplier' = bunnyHopMultiplier
          /\ isCrouching' = isCrouching
          /\ position'.y = position.y]_vars


(***************************************************************************)
(* C33.  Movement flags track held inputs.                                 *)
(***************************************************************************)
\* The direction a key is bound to.
BoundTo(code) ==
    CASE code \in {"KeyW", "ArrowUp"}   -> "forward"
      [] code \in {"KeyS", "ArrowDown"} -> "backward"
      [] code \in {"KeyA", "ArrowLeft"} -> "left"
      [] OTHER                          -> "right"

\* The joystick is deflected past the threshold in direction f.
Deflected(f) ==
    CASE f = "forward"  -> joystickVector.y > threshold
      [] f = "backward" -> joystickVector.y < -threshold
      [] f = "left"     -> joystickVector.x < -threshold
      [] OTHER          -> joystickVector.x > threshold

\* C33: under any interleaving of key-down, key-up and joystick events, each
\* directional flag is true exactly when an input bound to that direction is
\* held: a bound key is down, or the joystick is deflected past the threshold
\* in that direction.
C33_FlagsTrackHeldInputs ==
    \A f \in DOMAIN move :
        move[f] <=> ((\E code \in held : BoundTo(code) = f) \/ Deflected(f))


(***************************************************************************)
(* C34.  Joystick capture window.                                          *)
(***************************************************************************)
\* The window is open from a joystick-start event to the matching end event:
\* while a pointer is down on the joystick.
CaptureWindowOpen == stickPointer # {}

\* C34: a pointer-move event outside the capture window (before the first
\* joystick start, or after the end that matches the last start) leaves the
\* movement flags and the joystick vector unchanged.
C34_MovesOnlyInsideTheWindow ==
    [][(last'.op = "joystickMove" /\ ~CaptureWindowOpen)
       => (move' = move /\ joystickVector' = joystickVector)]_vars


(***************************************************************************)
(* C35.  Crouch speed bound.                                               *)
(***************************************************************************)
\* The distance a frame of dt ms covers at crouch speed, in 1/1000 unit.
CrouchDistance(dt) ==
    TruncDiv(TruncDiv(crouchSpeed * bunnyHopMultiplier, 1000) * dt, 1000)

\* C35: a first-person tick of a crouching player who holds forward alone and
\* is not blocked moves the player along the heading by crouchSpeed times the
\* bunny-hop multiplier times the frame time, whether or not the run flag is set.
C35_CrouchSpeedBound ==
    [][\A dt \in DeltaSet :
          (/\ activeControls = "fps" /\ Tick(dt) /\ isCrouching
           /\ move.forward /\ ~move.backward /\ ~move.left /\ ~move.right
           /\ last'.slide = "full")
          => /\ position'.x = position.x + forwardOf(heading).x * CrouchDistance(dt)
             /\ position'.z = position.z + forwardOf(heading).z * CrouchDistance(dt)]_vars


(***************************************************************************)
(* C36.  Crouched rest height.                                             *)
(***************************************************************************)
\* Where a standing player rests at the spot the last tick grounded the player
\* on: the top of the collider it landed on, or the fallback plane.
StandingRestHeight ==
    IF last.clamped THEN groundHeight ELSE colliderBoxes[last.index].max.y

\* C36: at the end of a first-person tick that leaves a crouching player at rest
\* (grounded, no directional input, vertical velocity 0), position.y is the
\* standing rest height of that spot lowered by |crouchOffset|, on the fallback
\* plane and on top of a collider alike.
C36_CrouchedRestHeight ==
    (Grounded(last) /\ isCrouching /\ noDirection /\ verticalVelocity = 0)
        => position.y = StandingRestHeight + crouchOffset


(***************************************************************************)
(* C37.  Base-speed bookkeeping.                                           *)
(***************************************************************************)
\* C37: in every reachable state the base speed is crouchSpeed when the crouch
\* flag is set and the normal walking speed (4) when it is not, and the saved
\* prior speed is the walking speed: no crouch press, repeated press or refused
\* stand-up overwrites it with crouchSpeed.
C37_BaseSpeedBookkeeping ==
    /\ baseSpeed = (IF isCrouching THEN crouchSpeed ELSE 4000)
    /\ normalSpeed = 4000

\* A repeated crouch press of a crouching player whose stand-up is blocked: the
\* player is still crouching at crouch speed with the walking speed saved.
C37_Witness ==
    /\ last.op = "keyC" /\ last.out = "already"
    /\ isCrouching /\ baseSpeed = crouchSpeed /\ normalSpeed = 4000
    /\ checkHeadCollision(Vec(position.x, position.y - crouchOffset, position.z)).collision

====
